---- MODULE Spec2Model ----
(***************************************************************************)
(* Bollinger-band breakout/retest trading pipeline.                        *)
(*                                                                         *)
(* The model follows strategy.py (StrategyState, decide), the bar handler  *)
(* on_kline of main.py and the strategy_state table of db.py.              *)
(*                                                                         *)
(* Prices are integers.  The float comparisons of decide against           *)
(* entry_price * (1 +/- 0.001) and base * (1 -/+ reentry_buffer_pct) are   *)
(* carried out in exact arithmetic with both sides multiplied by Scale;    *)
(* reentry_buffer_pct is held in thousandths.  On the price grid used here *)
(* the exact comparison and the IEEE double comparison agree.              *)
(*                                                                         *)
(* In the pipeline specification the indicator engine is represented by    *)
(* what on_kline receives from compute_realtime_boll: either no bands, or  *)
(* a pair dn < up.  The engine itself (indicators.py), the timestamped     *)
(* strategy_state table (db.py) and the reconnecting stream client         *)
(* (ws_client.py) each have a specification of their own, SpecInd, SpecDb  *)
(* and SpecWs; a specification leaves the variables of the others at       *)
(* Unused.                                                                 *)
(***************************************************************************)
EXTENDS Integers, Sequences, FiniteSets, TLC

VARIABLES
    state,      \* the in-memory StrategyState of main()
    store,      \* table strategy_state: <<>> or <<row the latest-row query returns>>
    cfg,        \* the Config fields on_kline reads, fixed at startup
    call,       \* the on_kline run in progress: the bar, what it saw and what it did
    strategy_state, \* table strategy_state with its id and ts columns (SpecDb)
    ind,        \* the Indicator object and its last calls (SpecInd)
    ws          \* WSClient.connect_and_listen: its locals and position (SpecWs)

vars == <<state, store, cfg, call, strategy_state, ind, ws>>

(* The value of a variable in the specifications that do not exercise it *)
Unused == [phase |-> "unused"]

----------------------------------------------------------------------------
(* Bounds of the model *)

MinPrice == 996
MaxTick == 3

Prices == MinPrice .. (MinPrice + MaxTick)

(* Two band positions over the price grid, each with dn < up *)
Bands == { [dn |-> MinPrice + 1, up |-> MinPrice + 2],
           [dn |-> MinPrice,     up |-> MinPrice + 1] }

(* reentry_buffer_pct values in thousandths: 0.0 and 0.001 *)
BufferPcts == {0, 1}

----------------------------------------------------------------------------
(* Values *)

Null == -1              \* Python None in a float | None field
NoPending == "none"     \* Python None in StrategyState.pending
NoSignal == "none"      \* Python None returned by decide

Scale == 1000
STOP_PCT == 1           \* 0.001, in thousandths

Positions == {"flat", "long", "short"}
Pendings == {NoPending, "waiting_short_entry", "waiting_long_entry",
             "waiting_short_confirm", "waiting_long_confirm"}
Signals == {"open_long", "open_short", "stop_loss_long", "stop_loss_short",
            "close_long_open_short", "close_short_open_long"}
StopSignals == {"stop_loss_long", "stop_loss_short"}
EntrySignals == Signals \ StopSignals

StrategyState ==
    [position |-> "flat", pending |-> NoPending, entry_price |-> Null,
     breakout_level |-> Null, breakout_up |-> FALSE, breakout_dn |-> FALSE,
     last_close_price |-> Null]

Max0(b) == IF b > 0 THEN b ELSE 0

----------------------------------------------------------------------------
(* strategy.py: decide *)

Ret(s, sig) == [state |-> s, signal |-> sig]

MarkClose_Always(s, is_closed, close_price) == [s EXCEPT !.last_close_price = close_price]

(* "if is_closed: state.last_close_price = close_price" *)
MarkClose(s, is_closed, close_price) ==
    IF is_closed THEN [s EXCEPT !.last_close_price = close_price] ELSE s

UpdateBreakout_KeepOther(s, close_price, up, dn, high_price, low_price) ==
    LET a == IF s.last_close_price # Null
             THEN IF s.last_close_price <= up /\ close_price > up
                  THEN [s EXCEPT !.breakout_up = TRUE, !.breakout_dn = FALSE]
                  ELSE IF s.last_close_price >= dn /\ close_price < dn
                       THEN [s EXCEPT !.breakout_dn = TRUE, !.breakout_up = FALSE]
                       ELSE s
             ELSE s
        b == IF high_price # Null /\ high_price > up
             THEN [a EXCEPT !.breakout_up = TRUE, !.breakout_dn = FALSE]
             ELSE a
    IN  IF low_price # Null /\ low_price < dn
        THEN [b EXCEPT !.breakout_dn = TRUE]
        ELSE b

(* Breakout flags from adjacent closes, then from the wicks of the bar *)
UpdateBreakout(s, close_price, up, dn, high_price, low_price) ==
    LET a == IF s.last_close_price # Null
             THEN IF s.last_close_price <= up /\ close_price > up
                  THEN [s EXCEPT !.breakout_up = TRUE, !.breakout_dn = FALSE]
                  ELSE IF s.last_close_price >= dn /\ close_price < dn
                       THEN [s EXCEPT !.breakout_dn = TRUE, !.breakout_up = FALSE]
                       ELSE s
             ELSE s
        b == IF high_price # Null /\ high_price > up
             THEN [a EXCEPT !.breakout_up = TRUE, !.breakout_dn = FALSE]
             ELSE a
    IN  IF low_price # Null /\ low_price < dn
        THEN [b EXCEPT !.breakout_dn = TRUE, !.breakout_up = FALSE]
        ELSE b

StopShortHit_ConfigPct(s, close_price) ==
    /\ s.position = "short"
    /\ s.entry_price # Null
    /\ close_price * Scale >= s.entry_price * (Scale + 20)

(* position short, entry recorded, close_price >= entry_price * (1 + STOP_PCT) *)
StopShortHit(s, close_price) ==
    /\ s.position = "short"
    /\ s.entry_price # Null
    /\ close_price * Scale >= s.entry_price * (Scale + STOP_PCT)

(* the elif arm: position long, entry recorded, close_price <= entry_price * (1 - STOP_PCT) *)
StopLongHit(s, close_price) ==
    /\ ~(s.position = "short" /\ s.entry_price # Null)
    /\ s.position = "long"
    /\ s.entry_price # Null
    /\ close_price * Scale <= s.entry_price * (Scale - STOP_PCT)

StopLossReset_KeepLevel(s, is_closed, close_price) ==
    MarkClose([s EXCEPT !.position = "flat", !.pending = NoPending,
                        !.entry_price = Null,
                        !.breakout_up = FALSE, !.breakout_dn = FALSE],
              is_closed, close_price)

StopLossReset_KeepPending(s, is_closed, close_price) ==
    MarkClose([s EXCEPT !.position = "flat",
                        !.entry_price = Null, !.breakout_level = Null,
                        !.breakout_up = FALSE, !.breakout_dn = FALSE],
              is_closed, close_price)

(* The assignments of both stop-loss arms *)
StopLossReset(s, is_closed, close_price) ==
    MarkClose([s EXCEPT !.position = "flat", !.pending = NoPending,
                        !.entry_price = Null, !.breakout_level = Null,
                        !.breakout_up = FALSE, !.breakout_dn = FALSE],
              is_closed, close_price)

can_act_Always(is_closed, only_on_close) == TRUE

can_act(is_closed, only_on_close) == is_closed \/ ~only_on_close

short_reentry_threshold_CurrentBand(s, up, use_breakout_level_for_entry, reentry_buffer_pct) ==
    up * Scale

(* _short_reentry_threshold, times Scale.  A breakout_level of None (or 0.0)
   is falsy and selects the current band. *)
short_reentry_threshold(s, up, use_breakout_level_for_entry, reentry_buffer_pct) ==
    LET base == IF use_breakout_level_for_entry
                   /\ s.breakout_level # Null /\ s.breakout_level # 0
                THEN s.breakout_level ELSE up
    IN  base * (Scale - Max0(reentry_buffer_pct))

long_reentry_threshold_CurrentBand(s, dn, use_breakout_level_for_entry, reentry_buffer_pct) ==
    dn * Scale

(* _long_reentry_threshold, times Scale *)
long_reentry_threshold(s, dn, use_breakout_level_for_entry, reentry_buffer_pct) ==
    LET base == IF use_breakout_level_for_entry
                   /\ s.breakout_level # Null /\ s.breakout_level # 0
                THEN s.breakout_level ELSE dn
    IN  base * (Scale + Max0(reentry_buffer_pct))

(* The tail of decide: drop the flags when back inside with nothing pending,
   move the close baseline on a closed bar, return None *)
Bookkeeping(s, close_price, up, dn, is_closed) ==
    LET a == IF close_price <= up /\ close_price >= dn /\ s.pending = NoPending
             THEN [s EXCEPT !.breakout_up = FALSE, !.breakout_dn = FALSE]
             ELSE s
    IN  Ret(MarkClose(a, is_closed, close_price), NoSignal)

Enter_KeepEntryPrice(s, side, flag, close_price, is_closed) ==
    LET a == [s EXCEPT !.position = side, !.pending = NoPending]
        b == IF flag = "up" THEN [a EXCEPT !.breakout_up = FALSE]
                            ELSE [a EXCEPT !.breakout_dn = FALSE]
    IN  MarkClose(b, is_closed, close_price)

(* The assignments of an entry or a reversal *)
Enter(s, side, flag, close_price, is_closed) ==
    LET a == [s EXCEPT !.position = side, !.pending = NoPending,
                       !.entry_price = close_price]
        b == IF flag = "up" THEN [a EXCEPT !.breakout_up = FALSE]
                            ELSE [a EXCEPT !.breakout_dn = FALSE]
    IN  MarkClose(b, is_closed, close_price)

(* position == "flat" *)
FlatBranch(s, close_price, up, dn, is_closed, only_on_close, use_breakout_level_for_entry, reentry_buffer_pct) ==
    LET a == IF s.breakout_up /\ s.pending # "waiting_short_entry"
             THEN [s EXCEPT !.pending = "waiting_short_entry", !.breakout_level = up]
             ELSE s
        b == IF a.breakout_dn /\ a.pending # "waiting_long_entry"
             THEN [a EXCEPT !.pending = "waiting_long_entry", !.breakout_level = dn]
             ELSE a
    IN  IF /\ b.pending = "waiting_short_entry"
           /\ close_price * Scale <= short_reentry_threshold(b, up,
                   use_breakout_level_for_entry, reentry_buffer_pct)
           /\ can_act(is_closed, only_on_close)
        THEN Ret(Enter(b, "short", "up", close_price, is_closed), "open_short")
        ELSE IF /\ b.pending = "waiting_long_entry"
                /\ close_price * Scale >= long_reentry_threshold(b, dn,
                        use_breakout_level_for_entry, reentry_buffer_pct)
                /\ can_act(is_closed, only_on_close)
             THEN Ret(Enter(b, "long", "dn", close_price, is_closed), "open_long")
             ELSE Bookkeeping(b, close_price, up, dn, is_closed)

(* position == "short" *)
ShortBranch(s, close_price, up, dn, is_closed, only_on_close, use_breakout_level_for_entry, reentry_buffer_pct) ==
    LET a == IF s.breakout_dn /\ s.pending # "waiting_long_confirm"
             THEN [s EXCEPT !.pending = "waiting_long_confirm", !.breakout_level = dn]
             ELSE s
    IN  IF /\ a.pending = "waiting_long_confirm"
           /\ close_price * Scale >= long_reentry_threshold(a, dn,
                   use_breakout_level_for_entry, reentry_buffer_pct)
           /\ can_act(is_closed, only_on_close)
        THEN Ret(Enter(a, "long", "dn", close_price, is_closed), "close_short_open_long")
        ELSE Bookkeeping(a, close_price, up, dn, is_closed)

(* position == "long" *)
LongBranch(s, close_price, up, dn, is_closed, only_on_close, use_breakout_level_for_entry, reentry_buffer_pct) ==
    LET a == IF s.breakout_up /\ s.pending # "waiting_short_confirm"
             THEN [s EXCEPT !.pending = "waiting_short_confirm", !.breakout_level = up]
             ELSE s
    IN  IF /\ a.pending = "waiting_short_confirm"
           /\ close_price * Scale <= short_reentry_threshold(a, up,
                   use_breakout_level_for_entry, reentry_buffer_pct)
           /\ can_act(is_closed, only_on_close)
        THEN Ret(Enter(a, "short", "up", close_price, is_closed), "close_long_open_short")
        ELSE Bookkeeping(a, close_price, up, dn, is_closed)

decide(close_price, up, dn, s, high_price, low_price, is_closed, only_on_close, use_breakout_level_for_entry, reentry_buffer_pct) ==
    IF up = Null \/ dn = Null
    THEN Ret(s, NoSignal)
    ELSE LET f == UpdateBreakout(s, close_price, up, dn, high_price, low_price)
         IN  IF StopShortHit(f, close_price)
             THEN Ret(StopLossReset(f, is_closed, close_price), "stop_loss_short")
             ELSE IF StopLongHit(f, close_price)
             THEN Ret(StopLossReset(f, is_closed, close_price), "stop_loss_long")
             ELSE IF f.position = "flat"
             THEN FlatBranch(f, close_price, up, dn, is_closed, only_on_close,
                             use_breakout_level_for_entry, reentry_buffer_pct)
             ELSE IF f.position = "short"
             THEN ShortBranch(f, close_price, up, dn, is_closed, only_on_close,
                              use_breakout_level_for_entry, reentry_buffer_pct)
             ELSE IF f.position = "long"
             THEN LongBranch(f, close_price, up, dn, is_closed, only_on_close,
                             use_breakout_level_for_entry, reentry_buffer_pct)
             ELSE Bookkeeping(f, close_price, up, dn, is_closed)

----------------------------------------------------------------------------
(* db.py: table strategy_state *)

BoolToInt(b) == IF b THEN 1 ELSE 0

(* save_strategy_state: the inserted row; with increasing stamps it becomes
   the row the latest-row query returns (SpecDb has the stamps) *)
save_strategy_state(s) ==
    << [position |-> s.position, pending |-> s.pending,
        entry_price |-> s.entry_price, breakout_level |-> s.breakout_level,
        breakout_up |-> BoolToInt(s.breakout_up),
        breakout_dn |-> BoolToInt(s.breakout_dn),
        last_close_price |-> s.last_close_price] >>

(* load_latest_strategy_state: <<>> for None, else the dict built from the row *)
load_latest_strategy_state(tbl) ==
    IF tbl = <<>>
    THEN <<>>
    ELSE << [position |-> tbl[1].position, pending |-> tbl[1].pending,
             entry_price |-> tbl[1].entry_price,
             breakout_level |-> tbl[1].breakout_level,
             breakout_up |-> (tbl[1].breakout_up # 0),
             breakout_dn |-> (tbl[1].breakout_dn # 0),
             last_close_price |-> tbl[1].last_close_price] >>

(* StrategyState.load_from_dict *)
load_from_dict(s, state_dict) ==
    IF state_dict = <<>> THEN s ELSE state_dict[1]

(* What a restart would resume from *)
Recovered == load_from_dict(StrategyState, load_latest_strategy_state(store))

----------------------------------------------------------------------------
(* trader.py: get_position_info.  The exchange answers with a long or short
   position, with no position, or the query fails; the method catches the
   failure itself and returns None. *)

QueryOutcomes == {"long", "short", "no_position", "failed"}

get_position_info(outcome) ==
    IF outcome \in {"long", "short"} THEN outcome ELSE "None"

----------------------------------------------------------------------------------------------------------------------------------------
(* main.py: main and on_kline; ws_client.py: the delivery loop *)

AllConfigs ==
    [simulate_trading : BOOLEAN, has_keys : BOOLEAN, only_on_close : BOOLEAN,
     use_breakout_level_for_entry : BOOLEAN, reentry_buffer_pct : BufferPcts]

(* The configurations explored.  on_kline reads the keys only when
   simulate_trading is off, so simulated runs are taken without keys; the
   entry-refinement parameters are varied in simulated runs. *)
Configs ==
    { c \in AllConfigs :
        /\ c.simulate_trading => ~c.has_keys
        /\ ~c.simulate_trading =>
               (~c.use_breakout_level_for_entry /\ c.reentry_buffer_pct = 0) }

Live(c) == ~c.simulate_trading /\ c.has_keys

NoBar == [close |-> Null, high |-> Null, low |-> Null, is_closed |-> FALSE]

NoCall ==
    [phase |-> "idle", k |-> NoBar, up |-> Null, dn |-> Null,
     outcome |-> "not_queried", entry |-> StrategyState, decided |-> FALSE,
     signal |-> NoSignal, logged |-> <<>>, saved |-> FALSE]

(* A bar as the exchange sends it: low <= close <= high; a wick, when there
   is one, reaches the end of the price grid *)
Bars == { b \in [close : Prices, high : Prices, low : Prices, is_closed : BOOLEAN] :
            /\ b.low \in {b.close, MinPrice}
            /\ b.high \in {b.close, MinPrice + MaxTick} }

(* compute_realtime_boll(k.close): no bands, or dn < up *)
Unavailable == [dn |-> Null, up |-> Null]
RtBands == Bands \cup {Unavailable}

(* The position sync of on_kline before decide *)
SyncPosition(s, outcome) ==
    LET actual_position == get_position_info(outcome)
    IN  IF actual_position # "None"
        THEN [s EXCEPT !.position = actual_position]
        ELSE [s EXCEPT !.position = "flat"]

Init ==
    /\ state = StrategyState
    /\ store = <<>>
    /\ cfg \in Configs
    /\ call = NoCall
    /\ strategy_state = Unused /\ ind = Unused /\ ws = Unused

(* main(): a restart of the process resumes from the latest stored row *)
Restart ==
    /\ call.phase = "idle"
    /\ state' = load_from_dict(StrategyState, load_latest_strategy_state(store))
    /\ UNCHANGED <<store, cfg, call, strategy_state, ind, ws>>

(* connect_and_listen: the next message is parsed into a KlineEvent *)
Receive ==
    /\ call.phase = "idle"
    /\ \E k \in Bars : call' = [NoCall EXCEPT !.phase = "received", !.k = k]
    /\ UNCHANGED <<state, store, cfg, strategy_state, ind, ws>>

BandsUnavailable_Never(rt) == FALSE

(* if rt_up is None or rt_dn is None: return (main.py 230-232) *)
BandsUnavailable(rt) == rt.up = Null \/ rt.dn = Null

(* on_kline(k), from its first line to its return *)
OnKline ==
    /\ call.phase = "received"
    /\ UNCHANGED <<strategy_state, ind, ws>>
    /\ \E rt \in RtBands,
          outcome \in (IF Live(cfg) THEN QueryOutcomes ELSE {"not_queried"}) :
        LET k == call.k
        IN  IF BandsUnavailable(rt)
            THEN /\ call' = [call EXCEPT !.phase = "done", !.entry = state]
                 /\ UNCHANGED <<state, store, cfg>>
            ELSE LET synced == IF Live(cfg) THEN SyncPosition(state, outcome) ELSE state
                     r == decide(k.close, rt.up, rt.dn, synced, k.high, k.low,
                                 k.is_closed, cfg.only_on_close,
                                 cfg.use_breakout_level_for_entry,
                                 cfg.reentry_buffer_pct)
                     logged == IF r.signal # NoSignal THEN <<r.signal>> ELSE <<>>
                     returns_early == /\ r.signal # NoSignal
                                      /\ (cfg.simulate_trading \/ ~cfg.has_keys)
                 IN  /\ state' = r.state
                     /\ store' = IF returns_early THEN store
                                 ELSE save_strategy_state(r.state)
                     /\ call' = [call EXCEPT !.phase = "done",
                                             !.up = rt.up, !.dn = rt.dn,
                                             !.outcome = outcome,
                                             !.entry = synced,
                                             !.decided = TRUE,
                                             !.signal = r.signal,
                                             !.logged = logged,
                                             !.saved = ~returns_early]
                     /\ UNCHANGED cfg

(* connect_and_listen: on_kline has returned, the loop waits for the next message *)
Return ==
    /\ call.phase = "done"
    /\ call' = NoCall
    /\ UNCHANGED <<state, store, cfg, strategy_state, ind, ws>>

Next == Receive \/ OnKline \/ Return \/ Restart

Spec == Init /\ [][Next]_vars

(* Simulated trading only: no exchange query, the state is changed by decide
   alone *)
InitSim == Init /\ cfg.simulate_trading

SpecSim == InitSim /\ [][Next]_vars

----------------------------------------------------------------------------
(* Properties *)

(* A handler run that reached decide has returned *)
Decided == call.phase = "done" /\ call.decided

(* Entries and reversals are allowed in this run *)
EntriesAllowed == call.k.is_closed \/ ~cfg.only_on_close

(* The stop-loss part of a post-state *)
ResetToFlat ==
    /\ state.position = "flat"
    /\ state.pending = NoPending
    /\ state.entry_price = Null
    /\ state.breakout_level = Null

(* C1, as stated: every decide call with position=short and closePrice > up
   returns stop_loss_short and leaves position=flat, pending=none,
   entry_price=null, breakout_level=null. *)
C1_Original ==
    (Decided /\ call.entry.position = "short" /\ call.k.close > call.up)
        => (call.signal = "stop_loss_short" /\ ResetToFlat)

(* C1, amended: every decide call with position=short, a recorded entry_price e
   and closePrice >= e * 1.001 returns stop_loss_short and leaves
   position=flat, pending=none, entry_price=null, breakout_level=null,
   whatever pending, the breakout flags, the bands, is_closed and
   only_on_close are. *)
C1_StopLossShortResets ==
    (/\ Decided
     /\ call.entry.position = "short"
     /\ call.entry.entry_price # Null
     /\ call.k.close * 1000 >= call.entry.entry_price * 1001)
        => (call.signal = "stop_loss_short" /\ ResetToFlat)

C1_Witness ==
    /\ Decided
    /\ call.entry.position = "short"
    /\ call.entry.pending = "waiting_long_confirm"
    /\ call.entry.breakout_level # Null
    /\ call.k.close <= call.up
    /\ call.k.close * 1000 >= call.entry.entry_price * 1001
    /\ call.signal = "stop_loss_short"

(* C2: stop-loss is never deferred: with position=short and entry_price e,
   close_price >= e * 1.001 returns stop_loss_short; with position=long,
   close_price <= e * 0.999 returns stop_loss_long; for every only_on_close
   and is_closed. *)
C2_StopLossNeverDeferred ==
    Decided =>
        /\ (/\ call.entry.position = "short"
            /\ call.entry.entry_price # Null
            /\ call.k.close * 1000 >= call.entry.entry_price * 1001)
               => call.signal = "stop_loss_short"
        /\ (/\ call.entry.position = "long"
            /\ call.entry.entry_price # Null
            /\ call.k.close * 1000 <= call.entry.entry_price * 999)
               => call.signal = "stop_loss_long"

C2_Witness ==
    /\ Decided
    /\ cfg.only_on_close
    /\ ~call.k.is_closed
    /\ call.entry.position = "short"
    /\ call.entry.entry_price # Null
    /\ call.k.close * 1000 >= call.entry.entry_price * 1001
    /\ call.signal = "stop_loss_short"

(* C3: a decide call returns at most one signal; a call that returns a
   stop-loss signal enters and reverses nothing, it ends with position=flat and
   pending=none; the handler logs at most one signal per bar update. *)
C3_SingleSignal ==
    call.phase = "done" =>
        /\ call.signal \in Signals \cup {NoSignal}
        /\ call.signal \in StopSignals =>
               (state.position = "flat" /\ state.pending = NoPending)
        /\ Len(call.logged) <= 1
        /\ \A i \in 1..Len(call.logged) : call.logged[i] = call.signal

(* A stop-loss in a call whose inputs also satisfy the reversal retest *)
C3_Witness ==
    /\ Decided
    /\ call.signal = "stop_loss_short"
    /\ call.entry.pending = "waiting_long_confirm"
    /\ call.k.close >= call.dn
    /\ EntriesAllowed
    /\ call.logged = <<"stop_loss_short">>

(* C4, as stated: every bar update ends with a persisted snapshot equal to the
   in-memory state, so after each update a restart resumes from the state
   the update left. *)
C4_Original ==
    call.phase = "done" => Recovered = state

(* C5, as stated: in every reachable state position=flat implies
   entry_price=null. *)
C5_Original ==
    state.position = "flat" => state.entry_price = Null

(* C6, as stated: waiting_short_entry and waiting_long_entry occur only while
   position=flat, waiting_long_confirm only while position=short,
   waiting_short_confirm only while position=long. *)
C6_Original ==
    /\ state.pending \in {"waiting_short_entry", "waiting_long_entry"}
           => state.position = "flat"
    /\ state.pending = "waiting_long_confirm" => state.position = "short"
    /\ state.pending = "waiting_short_confirm" => state.position = "long"

(* C7, as stated: at the end of every decide call a pending short entry or
   short confirm implies breakout_up, and a pending long entry or long confirm
   implies breakout_dn. *)
C7_Original ==
    Decided =>
        /\ state.pending \in {"waiting_short_entry", "waiting_short_confirm"}
               => state.breakout_up
        /\ state.pending \in {"waiting_long_entry", "waiting_long_confirm"}
               => state.breakout_dn

(* C8: breakout_up and breakout_dn are never both true. *)
C8_FlagsExclusive ==
    /\ ~(state.breakout_up /\ state.breakout_dn)
    /\ ~(call.entry.breakout_up /\ call.entry.breakout_dn)

(* A bar with both wicks outside the bands flips the flag from up to dn *)
C8_Witness ==
    /\ Decided
    /\ call.entry.breakout_up
    /\ call.k.high > call.up
    /\ call.k.low < call.dn
    /\ state.breakout_dn
    /\ ~state.breakout_up

(* C9: from position=flat, pending=none a bar update whose close is above up
   sets pending=waiting_short_entry without a signal; from
   pending=waiting_short_entry a close below up, entries allowed, returns
   open_short with position=short and entry_price equal to that close;
   symmetric for the lower band with waiting_long_entry and open_long. *)
C9_Original ==
    Decided =>
        /\ (/\ call.entry.position = "flat" /\ call.entry.pending = NoPending
            /\ call.k.close > call.up)
               => (state.pending = "waiting_short_entry" /\ call.signal = NoSignal)
        /\ (/\ call.entry.position = "flat"
            /\ call.entry.pending = "waiting_short_entry"
            /\ call.k.close < call.up /\ EntriesAllowed)
               => (/\ call.signal = "open_short" /\ state.position = "short"
                   /\ state.entry_price = call.k.close)
        /\ (/\ call.entry.position = "flat" /\ call.entry.pending = NoPending
            /\ call.k.close < call.dn)
               => (state.pending = "waiting_long_entry" /\ call.signal = NoSignal)
        /\ (/\ call.entry.position = "flat"
            /\ call.entry.pending = "waiting_long_entry"
            /\ call.k.close > call.dn /\ EntriesAllowed)
               => (/\ call.signal = "open_long" /\ state.position = "long"
                   /\ state.entry_price = call.k.close)

(* The level a retest is measured against, as the two refinement parameters
   select it *)
RetestBase(band) ==
    IF cfg.use_breakout_level_for_entry /\ call.entry.breakout_level # Null
    THEN call.entry.breakout_level ELSE band

(* C10: with only_on_close=true a call on a forming bar returns no entry and
   no reversal and changes position only through a stop-loss; with
   only_on_close=false a forming bar is decided as a closed bar is. *)
C10_OnlyOnCloseGatesEntries ==
    (Decided /\ ~call.k.is_closed) =>
        /\ cfg.only_on_close =>
               /\ call.signal \notin EntrySignals
               /\ (state.position = call.entry.position
                      \/ call.signal \in StopSignals)
        /\ ~cfg.only_on_close =>
               call.signal =
                   decide(call.k.close, call.up, call.dn, call.entry,
                          call.k.high, call.k.low, TRUE, TRUE,
                          cfg.use_breakout_level_for_entry,
                          cfg.reentry_buffer_pct).signal

(* The retest condition holds on a forming bar and the entry is held back *)
C10_Witness ==
    /\ Decided
    /\ cfg.only_on_close
    /\ ~call.k.is_closed
    /\ call.entry.position = "flat"
    /\ call.entry.pending = "waiting_short_entry"
    /\ call.k.low >= call.dn
    /\ call.k.close * 1000 <= RetestBase(call.up) * (1000 - cfg.reentry_buffer_pct)
    /\ call.signal = NoSignal
    /\ state.position = "flat"
    /\ state.pending = "waiting_short_entry"

(* C11, as stated: decide returns the same signal and the same next state for
   all values of use_breakout_level_for_entry and reentry_buffer_pct. *)
C11_Original ==
    Decided =>
        \A u \in BOOLEAN, b \in BufferPcts :
            decide(call.k.close, call.up, call.dn, call.entry, call.k.high,
                   call.k.low, call.k.is_closed, cfg.only_on_close, u, b)
                = Ret(state, call.signal)

(* The level the retest of the returned call was measured against: the
   recorded breakout_level when use_breakout_level_for_entry is set, else the
   current band *)
ThresholdBase(band) ==
    IF cfg.use_breakout_level_for_entry /\ state.breakout_level # Null
    THEN state.breakout_level ELSE band

(* C11, amended: the two entry-refinement parameters act through the retest
   thresholds: an entry or reversal to the short side is returned only when
   close_price <= base * (1 - reentry_buffer_pct), one to the long side only
   when close_price >= base * (1 + reentry_buffer_pct), where base is the
   recorded breakout_level when use_breakout_level_for_entry is set and the
   current up/dn otherwise; with use_breakout_level_for_entry=false and
   reentry_buffer_pct=0 the conditions compare close_price with the current
   up/dn only. *)
C11_RefinementThresholds ==
    Decided =>
        /\ call.signal \in {"open_short", "close_long_open_short"} =>
               /\ call.k.close * 1000
                      <= ThresholdBase(call.up) * (1000 - cfg.reentry_buffer_pct)
               /\ (~cfg.use_breakout_level_for_entry /\ cfg.reentry_buffer_pct = 0)
                      => call.k.close <= call.up
        /\ call.signal \in {"open_long", "close_short_open_long"} =>
               /\ call.k.close * 1000
                      >= ThresholdBase(call.dn) * (1000 + cfg.reentry_buffer_pct)
               /\ (~cfg.use_breakout_level_for_entry /\ cfg.reentry_buffer_pct = 0)
                      => call.k.close >= call.dn

(* A short entry against the recorded level, at a close the buffered current
   band would have refused *)
C11_Witness ==
    /\ Decided
    /\ cfg.use_breakout_level_for_entry
    /\ cfg.reentry_buffer_pct = 1
    /\ call.signal = "open_short"
    /\ state.breakout_level # call.up
    /\ call.k.close * 1000 > call.up * (1000 - cfg.reentry_buffer_pct)

----------------------------------------------------------------------------
(* db.py: table strategy_state with its id and ts columns.                  *)
(* save_strategy_state inserts a row stamped int(time.time()*1000); the     *)
(* wall clock is not monotonic, so a stamp may equal or precede an earlier  *)
(* one.  load_latest_strategy_state runs ORDER BY ts DESC LIMIT 1.          *)

MaxTs == 2
MaxSaves == 3

(* Snapshots the pipeline saves *)
Snapshots ==
    { [StrategyState EXCEPT !.position = p, !.entry_price = e, !.breakout_up = b] :
        p \in {"flat", "short"}, e \in {Null, MinPrice}, b \in BOOLEAN }

(* The specifications of the parts leave the pipeline variables alone *)
PipelineUnused ==
    /\ state = Unused /\ store = Unused /\ cfg = Unused /\ call = Unused

(* INSERT INTO strategy_state(ts, ...): id is AUTOINCREMENT *)
InsertRow(rows, ts, s) ==
    Append(rows, [id |-> Len(rows) + 1, ts |-> ts] @@ save_strategy_state(s)[1])

(* ORDER BY ts DESC LIMIT 1: a row of greatest ts; SQL leaves the choice among
   equal ts open *)
LatestRows(rows) ==
    { rows[i] : i \in { j \in DOMAIN rows :
                          \A l \in DOMAIN rows : rows[l].ts <= rows[j].ts } }

InitDb ==
    /\ PipelineUnused
    /\ ind = Unused /\ ws = Unused
    /\ strategy_state = [phase |-> "saving", rows |-> <<>>,
                         last |-> StrategyState, loaded |-> StrategyState]

(* on_kline saves the state at the wall-clock stamp ts *)
DbSave ==
    /\ Len(strategy_state.rows) < MaxSaves
    /\ \E s \in Snapshots, ts \in 1..MaxTs :
          strategy_state' = [strategy_state EXCEPT
                                !.phase = "saving",
                                !.rows = InsertRow(strategy_state.rows, ts, s),
                                !.last = s]
    /\ UNCHANGED <<state, store, cfg, call, ind, ws>>

(* main(): load_latest_strategy_state, then StrategyState().load_from_dict *)
DbLoad ==
    /\ strategy_state.phase = "saving"
    /\ strategy_state.rows # <<>>
    /\ \E r \in LatestRows(strategy_state.rows) :
          strategy_state' = [strategy_state EXCEPT
                                !.phase = "loaded",
                                !.loaded = load_from_dict(StrategyState,
                                               load_latest_strategy_state(<<r>>))]
    /\ UNCHANGED <<state, store, cfg, call, ind, ws>>

NextDb == DbSave \/ DbLoad

SpecDb == InitDb /\ [][NextDb]_vars

(* C12: after any sequence of save_strategy_state calls, with equal or
   non-increasing timestamps possible, load_latest_strategy_state followed by
   load_from_dict reproduces exactly the fields of the snapshot saved last. *)
C12_Original ==
    strategy_state.phase = "loaded" => strategy_state.loaded = strategy_state.last

----------------------------------------------------------------------------
(* indicators.py: Indicator.  A row of df keeps the columns the computations *)
(* read: open_time, close, is_closed.  ma, std, up and dn are held times     *)
(* IndScale, std rounded down to the grid.                                   *)

Window == 2             \* Indicator.window
MaxRows == 3            \* Indicator.max_rows
MaxOpenTime == 4        \* bars 1..MaxOpenTime are delivered
IndCloses == {10, 11}   \* closing prices fed to the indicator

IndScale == 60
BollMultiplier == 2     \* Indicator.boll_multiplier
BollDdofs == {0, 1}     \* Indicator.boll_ddof
NaN == -2

NoneSnapshot == [ma |-> Null, std |-> Null, up |-> Null, dn |-> Null]

RECURSIVE SumSeq(_)
SumSeq(s) == IF s = <<>> THEN 0 ELSE Head(s) + SumSeq(Tail(s))

RECURSIVE SumSq(_)
SumSq(s) == IF s = <<>> THEN 0 ELSE Head(s) * Head(s) + SumSq(Tail(s))

Isqrt(x) == CHOOSE r \in 0..x : r * r <= x /\ x < (r + 1) * (r + 1)

(* Series.tail(n) *)
TailN(s, n) == IF Len(s) <= n THEN s ELSE SubSeq(s, Len(s) - n + 1, Len(s))

(* Series.mean(), times IndScale *)
Mean(closes) == (SumSeq(closes) * IndScale) \div Len(closes)

(* Series.std(ddof), times IndScale: NaN when len - ddof <= 0 *)
Std(closes, ddof) ==
    LET n == Len(closes)
        num == n * SumSq(closes) - SumSeq(closes) * SumSeq(closes)
    IN  IF n - ddof <= 0 THEN NaN
        ELSE Isqrt((num * IndScale * IndScale) \div (n * (n - ddof)))

(* df[df["is_closed"] == True]["close"] *)
ClosedCloses(df) ==
    LET closed_df == SelectSeq(df, LAMBDA r : r.is_closed)
    IN  [i \in DOMAIN closed_df |-> closed_df[i].close]

(* ma, std, ma + m*std, ma - m*std; NaN spreads to up and dn *)
Boll(closes, ddof) ==
    LET ma == Mean(closes)
        std == Std(closes, ddof)
    IN  [ma |-> ma, std |-> std,
         up |-> IF std = NaN THEN NaN ELSE ma + BollMultiplier * std,
         dn |-> IF std = NaN THEN NaN ELSE ma - BollMultiplier * std]

(* add_kline: the row is written at index len(df); more than max_rows rows
   are cut to the last max_rows; the snapshot is computed over the closed rows *)
add_kline(df, k, ddof) ==
    LET appended == Append(df, k)
        kept == IF Len(appended) > MaxRows THEN TailN(appended, MaxRows) ELSE appended
        closed == ClosedCloses(kept)
    IN  [df |-> kept,
         res |-> IF Len(closed) < Window THEN NoneSnapshot
                 ELSE Boll(TailN(closed, Window), ddof)]

RealtimeSeries_FullWindow(df, current_close) ==
    LET closed == ClosedCloses(df)
        available_closes == IF Len(closed) < Window THEN Len(closed) ELSE Window
    IN  IF Len(closed) = 0 THEN <<>>
        ELSE Append(TailN(closed, available_closes), current_close)

(* The series compute_realtime_boll builds, <<>> when no closed row is held *)
RealtimeSeries(df, current_close) ==
    LET closed == ClosedCloses(df)
        m == IF Window - 1 > 1 THEN Window - 1 ELSE 1
        available_closes == IF Len(closed) < m THEN Len(closed) ELSE m
    IN  IF Len(closed) = 0 THEN <<>>
        ELSE Append(TailN(closed, available_closes), current_close)

compute_realtime_boll_KeepZeroStd(df, current_close, ddof) ==
    LET closes == RealtimeSeries(df, current_close)
    IN  IF Len(closes) < 2 THEN NoneSnapshot
        ELSE IF Std(closes, ddof) = NaN THEN NoneSnapshot
        ELSE Boll(closes, ddof)

compute_realtime_boll(df, current_close, ddof) ==
    LET closes == RealtimeSeries(df, current_close)
    IN  IF Len(closes) < 2 THEN NoneSnapshot
        ELSE IF Std(closes, ddof) = NaN \/ Std(closes, ddof) = 0 THEN NoneSnapshot
        ELSE Boll(closes, ddof)

NoRow == [open_time |-> 0, close |-> Null, is_closed |-> FALSE]

(* No call of upsert_indicator in the step *)
NoUpsert == [open_time |-> 0, is_closed |-> TRUE]

(* main(), lines 198-200: if ma is not None: upsert_indicator(k.open_time, ...).
   is_closed is the flag the kline was stored with; the query of
   get_recent_klines does not select it *)
HistoryUpsert(k, res, stored_is_closed) ==
    IF res # NoneSnapshot
    THEN [open_time |-> k.open_time, is_closed |-> stored_is_closed]
    ELSE NoUpsert

(* on_kline, lines 223-224: if k.is_closed and (ma is not None):
   upsert_indicator(k.open_time, ...) *)
StreamUpsert(k, res) ==
    IF k.is_closed /\ res # NoneSnapshot
    THEN [open_time |-> k.open_time, is_closed |-> k.is_closed]
    ELSE NoUpsert

InitInd ==
    /\ PipelineUnused
    /\ strategy_state = Unused /\ ws = Unused
    /\ \E ddof \in BollDdofs :
          ind = [phase |-> "history", ddof |-> ddof, df |-> <<>>, prev |-> <<>>,
                 k |-> NoRow, res |-> NoneSnapshot, rt |-> NoneSnapshot,
                 cur |-> 0, cur_closed |-> FALSE,
                 added |-> {}, fed_closed |-> [t \in 1..MaxOpenTime |-> Null],
                 upsert |-> NoUpsert]

(* The bookkeeping of what has been fed: the open times added, and the close
   of every bar fed as closed *)
Fed(i, k) ==
    [i EXCEPT !.k = k,
              !.prev = i.df,
              !.cur = k.open_time,
              !.added = i.added \cup {k.open_time},
              !.fed_closed = IF k.is_closed
                             THEN [i.fed_closed EXCEPT ![k.open_time] = k.close]
                             ELSE i.fed_closed]

(* main(): a stored kline, oldest first, is added as a closed bar. The
   klines table holds the rows insert_kline wrote, closed or not. *)
IndHistory ==
    /\ ind.phase = "history"
    /\ \E t \in (ind.cur + 1)..MaxOpenTime, c \in IndCloses, stored_is_closed \in BOOLEAN :
          LET k == [open_time |-> t, close |-> c, is_closed |-> TRUE]
              r == add_kline(ind.df, k, ind.ddof)
          IN  ind' = [Fed(ind, k) EXCEPT !.df = r.df, !.res = r.res,
                                         !.cur_closed = FALSE,
                                         !.upsert = HistoryUpsert(k, r.res, stored_is_closed)]
    /\ UNCHANGED <<state, store, cfg, call, strategy_state, ws>>

(* on_kline: add_kline(k), then compute_realtime_boll(k.close).  The stream
   delivers updates of the bar in progress, then its closed update, then the
   next bar; the first bar after startup may be the last stored one. *)
IndStream ==
    /\ \E t \in {u \in 1..MaxOpenTime :
                    \/ u = ind.cur /\ ~ind.cur_closed
                    \/ u = ind.cur + 1},
          c \in IndCloses, x \in BOOLEAN :
          LET k == [open_time |-> t, close |-> c, is_closed |-> x]
              r == add_kline(ind.df, k, ind.ddof)
          IN  ind' = [Fed(ind, k) EXCEPT
                         !.phase = "stream", !.df = r.df, !.res = r.res,
                         !.rt = compute_realtime_boll(r.df, k.close, ind.ddof),
                         !.cur_closed = x,
                         !.upsert = StreamUpsert(k, r.res)]
    /\ UNCHANGED <<state, store, cfg, call, strategy_state, ws>>

NextInd == IndHistory \/ IndStream

SpecInd == InitInd /\ [][NextInd]_vars

(* C13: the window holds at most one bar per openTime: a redelivered bar
   overwrites the stored one instead of adding a row. *)
C13_Original ==
    \A i, j \in DOMAIN ind.df :
        i # j => ind.df[i].open_time # ind.df[j].open_time

(* The n greatest elements of a set of open times *)
Greatest(S, n) == { t \in S : Cardinality({ u \in S : u > t }) < n }

(* C14: the window holds at most max_rows bars and, once more than max_rows
   distinct bars have been added, exactly the max_rows bars of greatest
   openTime. *)
C14_Original ==
    /\ Len(ind.df) <= MaxRows
    /\ Cardinality(ind.added) > MaxRows =>
           { ind.df[i].open_time : i \in DOMAIN ind.df } = Greatest(ind.added, MaxRows)

(* The bars fed as closed so far *)
FedClosed == { t \in 1..MaxOpenTime : ind.fed_closed[t] # Null }

RECURSIVE SumCloses(_)
SumCloses(S) ==
    IF S = {} THEN 0
    ELSE LET t == CHOOSE u \in S : TRUE
         IN  ind.fed_closed[t] + SumCloses(S \ {t})

(* C15: add_kline returns the unavailable snapshot exactly while fewer than
   window closed bars have been fed, and from the window-th closed bar on an
   available one whose ma is the arithmetic mean of the closes of the window
   most recent closed bars. *)
C15_Original ==
    ind.k # NoRow =>
        /\ (ind.res = NoneSnapshot) <=> (Cardinality(FedClosed) < Window)
        /\ ind.res # NoneSnapshot =>
               ind.res.ma = (SumCloses(Greatest(FedClosed, Window)) * IndScale) \div Window

(* C16, as stated: compute_realtime_boll(c) just before a closed bar with
   close c is added and add_kline of that bar return the same result. *)
C16_Original ==
    ind.k.is_closed =>
        compute_realtime_boll(ind.prev, ind.k.close, ind.ddof) = ind.res

(* C16, amended: when add_kline of a closed bar with close c returns an
   available snapshot, compute_realtime_boll(c) evaluated just before the bar
   was added used the same series of closes; with nonzero deviation both
   return the same ma/std/up/dn, with zero deviation the realtime result is
   unavailable and the canonical one has up = dn. *)
C16_RealtimeAgreesAtClose ==
    (ind.k.is_closed /\ ind.res # NoneSnapshot) =>
        /\ RealtimeSeries(ind.prev, ind.k.close)
               = TailN(ClosedCloses(ind.df), Window)
        /\ ind.res.std > 0 =>
               compute_realtime_boll(ind.prev, ind.k.close, ind.ddof) = ind.res
        /\ ind.res.std = 0 =>
               /\ compute_realtime_boll(ind.prev, ind.k.close, ind.ddof) = NoneSnapshot
               /\ ind.res.up = ind.res.dn

(* A closed bar arrives over a full window of rows and both snapshots are
   available *)
C16_Witness ==
    /\ ind.phase = "stream"
    /\ ind.k.is_closed
    /\ Len(ind.prev) = MaxRows
    /\ ind.res # NoneSnapshot
    /\ ind.res.std > 0
    /\ compute_realtime_boll(ind.prev, ind.k.close, ind.ddof) = ind.res

(* C17: compute_realtime_boll returns unavailable whenever its series has
   fewer than 2 points or zero deviation; every available realtime snapshot
   has dn < up. *)
C17_NoDegenerateBand ==
    ind.phase = "stream" =>
        LET s == RealtimeSeries(ind.df, ind.k.close)
        IN  /\ (Len(s) < 2 \/ \A i \in DOMAIN s : s[i] = s[1])
                   => ind.rt = NoneSnapshot
            /\ ind.rt # NoneSnapshot => ind.rt.dn < ind.rt.up

(* Closed rows and a current price all equal: at least 2 points, no deviation *)
C17_Witness ==
    /\ ind.phase = "stream"
    /\ ~ind.k.is_closed
    /\ Len(RealtimeSeries(ind.df, ind.k.close)) >= 2
    /\ \A i \in DOMAIN RealtimeSeries(ind.df, ind.k.close) :
           RealtimeSeries(ind.df, ind.k.close)[i] = ind.k.close
    /\ ind.rt = NoneSnapshot

----------------------------------------------------------------------------
(* ws_client.py: WSClient.connect_and_listen.  pc is the position in the     *)
(* method: "loop" at the while test, "connecting" inside websockets.connect  *)
(* for candidate idx, "open" inside the async for, "pass_end" after the for  *)
(* over the candidates, "returned" after the while.  Delays are in seconds.  *)

BackoffInitials == {1, 2}   \* backoff_initial
BackoffMaxes == {3, 5}      \* backoff_max, not below backoff_initial

BinanceHosts == <<"wss://fstream.binance.com", "wss://stream.binancefuture.com">>
WsBases == {"wss://fstream.binance.com", "wss://example.test"}

(* host_candidates: ws_base, then the two fixed hosts, no host twice *)
HostCandidates(ws_base) ==
    <<ws_base>> \o SelectSeq(BinanceHosts, LAMBDA h : h # ws_base)

(* candidates: for every host the /ws path, then the /stream path *)
Candidates(ws_base) ==
    LET hosts == HostCandidates(ws_base)
    IN  [i \in 1..(2 * Len(hosts)) |->
            [host |-> hosts[(i + 1) \div 2],
             path |-> IF i % 2 = 1 THEN "/ws/" ELSE "/stream?streams="]]

Min(a, b) == IF a <= b THEN a ELSE b

NextBackoff_NoCap(backoff, backoff_max) == backoff * 2

(* backoff = min(backoff * 2, self.backoff_max) *)
NextBackoff(backoff, backoff_max) == Min(backoff * 2, backoff_max)

(* The delays slept since the last successful connection: the last two *)
Slept(run, delay) == TailN(Append(run, delay), 2)

(* The messages a connection can hand to the loop, by what lines 85-99 do
   with them:
     kline             {"k": {...}} or {"data": {"k": {...}}} with all fields
     invalid_json      json.loads raises
     not_object        a JSON list, string, number or null: data.get raises
     enveloped_list    {"data": [1]}: the payload is a list without "k"
     missing_field     k["c"] raises KeyError
     non_numeric_field float("abc") raises ValueError
     no_kline_key      an object without "k" (a subscription reply) *)
MsgKinds == {"kline", "invalid_json", "not_object", "enveloped_list", "missing_field", "non_numeric_field", "no_kline_key"}

Malformed == {"invalid_json", "not_object", "enveloped_list", "missing_field", "non_numeric_field"}

(* Lines 85-98: "event" when a KlineEvent is built, "raise" when one of the
   statements raises, "skip" when `if "k" in payload` is false *)
Parse(kind) ==
    CASE kind = "kline" -> "event"
      [] kind \in {"invalid_json", "not_object", "missing_field", "non_numeric_field"} -> "raise"
      [] OTHER -> "skip"

(* simulate_trading / no API keys / live trading *)
Modes == {"simulate", "no_keys", "live"}

MaxMsgs == 2       \* messages received over all connections
MaxInflight == 2   \* on_kline calls counted as running

NoMsg == [kind |-> "none", logged |-> FALSE, invoked |-> FALSE]

NoKlineCall == [applied |-> FALSE, sig |-> FALSE, handed |-> FALSE, orders |-> 0, sink_failed |-> FALSE, exec_failed |-> FALSE, error_logged |-> FALSE, saved |-> FALSE, ended |-> "none"]

InitWs ==
    /\ PipelineUnused
    /\ strategy_state = Unused /\ ind = Unused
    /\ \E b0 \in BackoffInitials, bmax \in BackoffMaxes, base \in WsBases, mode \in Modes :
          ws = [pc |-> "loop", backoff_initial |-> b0, backoff_max |-> bmax,
                ws_base |-> base, stop |-> FALSE,
                backoff |-> b0, idx |-> 0, connected |-> FALSE,
                delivered |-> FALSE, exhausted |-> FALSE,
                run |-> <<>>, backoff_at_open |-> b0, entered |-> "start",
                mode |-> mode, cancelled |-> FALSE, cancel_at |-> "none",
                arrived |-> 0, taken |-> 0, inflight |-> 0, invoked_n |-> 0,
                msg |-> NoMsg, kpc |-> "idle",
                kcall |-> NoKlineCall, after |-> "none", prev_idx |-> 0]

(* while not self._stop.is_set(): the candidates are built, connected = False *)
WsStartPass ==
    /\ ws.pc = "loop" /\ ~ws.stop
    /\ ws' = [ws EXCEPT !.pc = "connecting", !.idx = 1, !.connected = FALSE,
                         !.delivered = FALSE, !.exhausted = FALSE,
                         !.after = "pass_start", !.prev_idx = ws.idx]
    /\ UNCHANGED <<state, store, cfg, call, strategy_state, ind>>

NextCandidate_Restart(w) == [w EXCEPT !.pc = "connecting", !.idx = 1, !.prev_idx = w.idx]

(* The for loop goes on after candidate idx: the next one, or the end of the
   list *)
NextCandidate(w) ==
    IF w.idx < Len(Candidates(w.ws_base))
    THEN [w EXCEPT !.pc = "connecting", !.idx = w.idx + 1, !.prev_idx = w.idx]
    ELSE [w EXCEPT !.pc = "pass_end", !.exhausted = TRUE]

(* websockets.connect raises: the inner except logs and the for loop goes on *)
WsOpenFail ==
    /\ ws.pc = "connecting"
    /\ ws' = [NextCandidate(ws) EXCEPT !.after = "open_failed"]
    /\ UNCHANGED <<state, store, cfg, call, strategy_state, ind>>

(* websockets.connect succeeds: backoff = backoff_initial, connected = True.
   Messages left unread on an earlier connection are gone. *)
WsOpenOk ==
    /\ ws.pc = "connecting"
    /\ ws' = [ws EXCEPT !.pc = "open", !.backoff = ws.backoff_initial,
                         !.connected = TRUE, !.delivered = FALSE,
                         !.backoff_at_open = ws.backoff, !.run = <<>>,
                         !.taken = ws.arrived]
    /\ UNCHANGED <<state, store, cfg, call, strategy_state, ind>>

(* The server sends a message: the connection queues it, also while a
   callback is running *)
WsArrive ==
    /\ ws.pc \in {"open", "on_kline"}
    /\ ws.arrived < MaxMsgs
    /\ ws' = [ws EXCEPT !.arrived = ws.arrived + 1]
    /\ UNCHANGED <<state, store, cfg, call, strategy_state, ind>>

AwaitCallback_FireAndForget(w) == [w EXCEPT !.kpc = "insert_kline", !.inflight = w.inflight + 1, !.invoked_n = w.taken]

(* await on_kline(evt): the loop takes no further message until the call is
   over *)
AwaitCallback(w) ==
    [w EXCEPT !.pc = "on_kline", !.kpc = "insert_kline", !.inflight = w.inflight + 1, !.invoked_n = w.taken]

CallRaises_Propagate(w) == [w EXCEPT !.pc = "returned", !.kpc = "idle", !.inflight = w.inflight - 1, !.kcall.ended = "raised"]

(* on_kline raises: except Exception at line 100 logs, the loop takes the
   next message *)
CallRaises(w) ==
    [w EXCEPT !.pc = "open", !.kpc = "idle", !.inflight = w.inflight - 1, !.kcall.ended = "raised", !.msg.logged = TRUE]

(* on_kline returns *)
CallReturns(w) ==
    [w EXCEPT !.pc = "open", !.kpc = "idle", !.inflight = w.inflight - 1, !.kcall.ended = "returned"]

(* async for msg in ws: the oldest unread message is taken and processed
   (lines 84-103) *)
WsDeliver ==
    /\ ws.pc = "open"
    /\ ws.taken < ws.arrived
    /\ ws.inflight < MaxInflight
    /\ \E kind \in MsgKinds :
          LET w == [ws EXCEPT !.delivered = TRUE, !.taken = ws.taken + 1,
                               !.msg = [kind |-> kind, logged |-> Parse(kind) = "raise", invoked |-> Parse(kind) = "event"],
                               !.kcall = NoKlineCall]
          IN  ws' = IF Parse(kind) = "event" THEN AwaitCallback(w) ELSE w
    /\ UNCHANGED <<state, store, cfg, call, strategy_state, ind>>

(* on_kline, line 220: await db.insert_kline(k); then add_kline, the
   indicator row, compute_realtime_boll. With the bands unavailable the call
   returns at line 232; otherwise the position is synchronised and decide
   runs (lines 242-262), which leaves StrategyState ahead of the store. A
   signal is logged next, no signal goes straight to the save. *)
KlInsertKline ==
    /\ ws.kpc = "insert_kline" /\ ws.pc = "on_kline"
    /\ \/ ws' = CallRaises(ws)
       \/ ws' = CallReturns(ws)
       \/ \E sig \in BOOLEAN :
             ws' = [ws EXCEPT !.kpc = IF sig THEN "log_signal" ELSE "save_strategy_state",
                              !.kcall.applied = TRUE, !.kcall.sig = sig]
    /\ UNCHANGED <<state, store, cfg, call, strategy_state, ind>>

(* line 264: await db.log_signal(...), outside every try. Then by mode:
   simulate -> the simulated trade rows, no keys -> return (line 308),
   live -> the orders *)
KlLogSignal ==
    /\ ws.kpc = "log_signal" /\ ws.pc = "on_kline"
    /\ \/ ws' = CallRaises([ws EXCEPT !.kcall.sink_failed = TRUE])
       \/ /\ ws.mode = "simulate"
          /\ ws' = [ws EXCEPT !.kpc = "log_trade_simulated", !.kcall.handed = TRUE]
       \/ /\ ws.mode = "no_keys"
          /\ ws' = CallReturns(ws)
       \/ /\ ws.mode = "live"
          /\ ws' = [ws EXCEPT !.kpc = "execute", !.kcall.handed = TRUE]
    /\ UNCHANGED <<state, store, cfg, call, strategy_state, ind>>

(* lines 270-305: await db.log_trade(...) inside try/except Exception, then
   return without saving *)
KlLogTradeSimulated ==
    /\ ws.kpc = "log_trade_simulated" /\ ws.pc = "on_kline"
    /\ \E failed \in BOOLEAN :
          ws' = CallReturns([ws EXCEPT !.kcall.sink_failed = failed])
    /\ UNCHANGED <<state, store, cfg, call, strategy_state, ind>>

(* lines 311-371: the trader calls (synchronous). They return and the trade
   row is written next, or they raise and except Exception at line 372 logs
   "order failed" *)
KlExecute ==
    /\ ws.kpc = "execute" /\ ws.pc = "on_kline"
    /\ \E raised \in BOOLEAN :
          ws' = [ws EXCEPT !.kpc = IF raised THEN "log_error" ELSE "log_trade",
                           !.kcall.orders = ws.kcall.orders + 1,
                           !.kcall.exec_failed = raised]
    /\ UNCHANGED <<state, store, cfg, call, strategy_state, ind>>

(* await db.log_trade(...) of the live branch, inside the try of line 311: a
   failure is caught at line 372 like an order failure *)
KlLogTrade ==
    /\ ws.kpc = "log_trade" /\ ws.pc = "on_kline"
    /\ \E failed \in BOOLEAN :
          ws' = [ws EXCEPT !.kpc = IF failed THEN "log_error" ELSE "save_strategy_state",
                           !.kcall.sink_failed = failed]
    /\ UNCHANGED <<state, store, cfg, call, strategy_state, ind>>

(* line 374: await db.log_error(...), inside the except clause: a failure
   leaves on_kline *)
KlLogError ==
    /\ ws.kpc = "log_error" /\ ws.pc = "on_kline"
    /\ \/ ws' = CallRaises([ws EXCEPT !.kcall.sink_failed = TRUE])
       \/ ws' = [ws EXCEPT !.kpc = "save_strategy_state", !.kcall.error_logged = TRUE]
    /\ UNCHANGED <<state, store, cfg, call, strategy_state, ind>>

(* lines 379-388: await db.save_strategy_state(...) *)
KlSaveState ==
    /\ ws.kpc = "save_strategy_state" /\ ws.pc = "on_kline"
    /\ \/ ws' = CallRaises(ws)
       \/ ws' = CallReturns([ws EXCEPT !.kcall.saved = TRUE])
    /\ UNCHANGED <<state, store, cfg, call, strategy_state, ind>>

(* The stream exits normally: break *)
WsStreamEnd ==
    /\ ws.pc = "open"
    /\ ws' = [ws EXCEPT !.pc = "pass_end", !.exhausted = FALSE, !.msg = NoMsg, !.kcall = NoKlineCall]
    /\ UNCHANGED <<state, store, cfg, call, strategy_state, ind>>

(* The open connection fails (dropped, or a ping not answered in time): the
   exception leaves the async with and is caught by the inner except, the
   for loop goes on with the next candidate *)
WsStreamFail ==
    /\ ws.pc = "open"
    /\ ws' = [NextCandidate(ws) EXCEPT !.after = "stream_failed", !.msg = NoMsg, !.kcall = NoKlineCall]
    /\ UNCHANGED <<state, store, cfg, call, strategy_state, ind>>

(* if not connected: sleep(backoff), backoff doubled up to backoff_max, continue *)
WsSleep ==
    /\ ws.pc = "pass_end" /\ ~ws.connected
    /\ ws' = [ws EXCEPT !.pc = "loop",
                         !.run = Slept(ws.run, ws.backoff),
                         !.backoff = NextBackoff(ws.backoff, ws.backoff_max),
                         !.entered = "slept"]
    /\ UNCHANGED <<state, store, cfg, call, strategy_state, ind>>

(* connected is True: the while loop goes round at once *)
WsNoSleep ==
    /\ ws.pc = "pass_end" /\ ws.connected
    /\ ws' = [ws EXCEPT !.pc = "loop",
                         !.entered = IF ws.exhausted THEN "failed_no_delay"
                                     ELSE "stream_end"]
    /\ UNCHANGED <<state, store, cfg, call, strategy_state, ind>>

(* stop(): self._stop.set() *)
WsStop ==
    /\ ws.pc # "returned" /\ ~ws.stop
    /\ ws' = [ws EXCEPT !.stop = TRUE]
    /\ UNCHANGED <<state, store, cfg, call, strategy_state, ind>>

(* The while test finds _stop set *)
WsReturn ==
    /\ ws.pc = "loop" /\ ws.stop
    /\ ws' = [ws EXCEPT !.pc = "returned"]
    /\ UNCHANGED <<state, store, cfg, call, strategy_state, ind>>

(* The places where the task is suspended: the connection attempt, the wait
   for a message, the awaits of on_kline, the sleep *)
Suspended(w) ==
    \/ w.pc \in {"connecting", "open"}
    \/ w.pc = "on_kline" /\ w.kpc # "execute"
    \/ w.pc = "pass_end" /\ ~w.connected

(* The task is cancelled (asyncio.run on Ctrl-C): CancelledError is raised at
   the await the task is suspended at, passes every except Exception, closes
   the connection and is caught at line 122: break *)
WsCancel ==
    /\ Suspended(ws) /\ ~ws.cancelled
    /\ ws' = [ws EXCEPT !.pc = "returned", !.cancelled = TRUE,
                         !.cancel_at = ws.kpc, !.kpc = "idle",
                         !.inflight = IF ws.kpc = "idle" THEN ws.inflight ELSE ws.inflight - 1,
                         !.kcall.ended = IF ws.kpc = "idle" THEN ws.kcall.ended ELSE "cancelled"]
    /\ UNCHANGED <<state, store, cfg, call, strategy_state, ind>>

NextWs ==
    \/ WsStartPass \/ WsOpenFail \/ WsOpenOk \/ WsArrive \/ WsDeliver
    \/ KlInsertKline \/ KlLogSignal \/ KlLogTradeSimulated \/ KlExecute
    \/ KlLogTrade \/ KlLogError \/ KlSaveState
    \/ WsStreamEnd \/ WsStreamFail \/ WsSleep \/ WsNoSleep
    \/ WsStop \/ WsReturn \/ WsCancel

SpecWs == InitWs /\ [][NextWs]_vars

(* What the scheduling guarantees: the loop's own steps are taken, a
   connection attempt ends (open_timeout), a queued message is taken, and
   the database and trader calls of on_kline end. Nothing makes the server
   send, close or drop a connection, and nothing makes stop() or a
   cancellation happen. *)
WsFairness ==
    /\ WF_vars(WsStartPass) /\ WF_vars(WsReturn)
    /\ WF_vars(WsSleep) /\ WF_vars(WsNoSleep)
    /\ WF_vars(WsOpenFail \/ WsOpenOk)
    /\ WF_vars(WsDeliver)
    /\ WF_vars(KlInsertKline \/ KlLogSignal \/ KlLogTradeSimulated \/ KlExecute \/ KlLogTrade \/ KlLogError \/ KlSaveState)

SpecWsFair == SpecWs /\ WsFairness

(* C18: under consecutive failed connection attempts the delays are b0, 2*b0,
   4*b0, ... each capped at backoff_max: the first delay after a successful
   connection (and the first of all) is b0, each further delay is the double
   of the one before or backoff_max, no delay exceeds backoff_max and none is
   below the one before. *)
C18_BackoffSchedule ==
    /\ ws.backoff <= ws.backoff_max
    /\ \A i \in DOMAIN ws.run : ws.run[i] <= ws.backoff_max
    /\ Len(ws.run) = 1 => ws.run[1] = ws.backoff_initial
    /\ Len(ws.run) = 2 =>
           /\ ws.run[2] = Min(2 * ws.run[1], ws.backoff_max)
           /\ ws.run[1] <= ws.run[2]

(* A delay held at backoff_max, after a connection had reset the schedule *)
C18_Witness ==
    /\ ws.entered = "slept"
    /\ ws.backoff_at_open > ws.backoff_initial
    /\ Len(ws.run) = 2
    /\ ws.run[2] = ws.backoff_max
    /\ 2 * ws.run[1] > ws.backoff_max

(* C19: after a failure, once the remaining candidates have also failed, the
   client waits the backoff delay before the next pass; no pass starts with
   zero delay after a failure. *)
C19_Original ==
    ws.entered # "failed_no_delay"

(* C20: a connection that opens and has not delivered a message leaves the
   backoff delay unchanged. *)
C20_Original ==
    (ws.pc = "open" /\ ~ws.delivered) => ws.backoff = ws.backoff_at_open

(* C21: after stop() has been called connect_and_listen eventually returns,
   also when the connection stays open (idle, or delivering messages). *)
C21_Original ==
    ws.stop ~> (ws.pc = "returned")

(* C22: when the task is cancelled while an on_kline call is in progress,
   the call runs to its end before connect_and_listen returns, and a state
   that decide has changed has been saved by then. *)
C22_Original ==
    (ws.pc = "returned" /\ ws.cancel_at \notin {"none", "idle"}) =>
        /\ ws.kcall.ended \in {"returned", "raised"}
        /\ ws.kcall.applied => ws.kcall.saved

(* C23: the callback runs for one message at a time and in arrival order: a
   new on_kline call starts only when no call is running, it is for the
   oldest unread message, its number is above that of every earlier call,
   and never are two calls running. *)
C23_OneAtATimeInOrder ==
    [][/\ ws'.inflight <= 1
       /\ ws'.invoked_n # ws.invoked_n =>
              /\ ws.inflight = 0
              /\ ws'.invoked_n = ws.taken + 1
              /\ ws'.invoked_n > ws.invoked_n]_vars

(* The second bar is in the callback, on a connection opened after a
   mid-stream failure *)
C23_Witness ==
    /\ ws.pc = "on_kline" /\ ws.kpc = "insert_kline"
    /\ ws.invoked_n = 2 /\ ws.inflight = 1
    /\ ws.after = "stream_failed"

(* C24: a malformed message (invalid JSON, a payload that is not an object, a
   missing or non-numeric kline field) is logged and dropped: on_kline is not
   called for it, no decision is applied, and the connection stays open with
   the loop ready for the next message. *)
C24_Original ==
    (ws.msg.kind \in Malformed /\ ~ws.cancelled) =>
        /\ ws.msg.logged
        /\ ~ws.msg.invoked /\ ws.kpc = "idle" /\ ~ws.kcall.applied
        /\ ws.pc = "open"

(* C25: connect_and_listen has no terminal failure state: it returns only
   after stop() or a cancellation, whatever opens fail, streams fail or end,
   messages are malformed or callbacks raise; and a pass that is over is
   followed by another connection attempt unless stop() or a cancellation
   intervenes. *)
C25_NoTerminalFailure ==
    /\ [](ws.pc = "returned" => (ws.stop \/ ws.cancelled))
    /\ (ws.pc \in {"pass_end", "loop"}) ~> (ws.pc = "connecting" \/ ws.stop \/ ws.cancelled)

(* Still running after a pass of failed opens, a sleep, a later candidate
   that connected and a callback that raised *)
C25_Witness ==
    /\ ws.pc = "open" /\ ~ws.stop /\ ~ws.cancelled
    /\ ws.entered = "slept" /\ ws.idx > 1
    /\ ws.kcall.ended = "raised"

(* C26: the candidates are the configured host with both paths, then each
   fallback host with both paths, no host twice; a pass starts at the first
   candidate, and after a failed open or a mid-stream failure on candidate i
   the next attempt is candidate i + 1; after the last one the next pass
   starts from the first again. *)
C26_FailoverOrder ==
    LET cands == Candidates(ws.ws_base)
        n == Len(cands)
    IN  /\ n \in {4, 6}
        /\ cands[1].host = ws.ws_base
        /\ \A i \in 1..n : \A j \in 1..n :
              (cands[i].host = cands[j].host) <=> ((i + 1) \div 2 = (j + 1) \div 2)
        /\ \A i \in 1..n : cands[i].path = (IF i % 2 = 1 THEN "/ws/" ELSE "/stream?streams=")
        /\ \A i \in 3..n : cands[i].host = SelectSeq(BinanceHosts, LAMBDA h : h # ws.ws_base)[(i - 1) \div 2]
        /\ ws.pc \in {"connecting", "open", "on_kline"} => ws.idx \in 1..n
        /\ (ws.pc = "connecting" /\ ws.after = "pass_start") => ws.idx = 1
        /\ (ws.pc = "connecting" /\ ws.after \in {"open_failed", "stream_failed"}) => ws.idx = ws.prev_idx + 1
        /\ (ws.pc = "pass_end" /\ ws.exhausted) => ws.idx = n

(* A fallback host is being tried after the primary's second path failed
   mid-stream, in a pass that follows an exhausted list *)
C26_Witness ==
    /\ ws.pc = "connecting" /\ ws.after = "stream_failed"
    /\ ws.idx = 3 /\ ws.ws_base = "wss://example.test"
    /\ ws.entered = "failed_no_delay"

(* C27: with the bands unavailable the update is skipped for decisioning and
   the stream goes on: decide called without bands gives no signal and leaves
   every field of the state as it was; on_kline leaves the state and the
   store unchanged and logs no signal or trade; and the call returns, so the
   loop takes the next bar. *)
C27_UnavailableSkipsDecision ==
    /\ [][(call.phase = "received" /\ call'.phase = "done" /\ (call'.up = Null \/ call'.dn = Null)) =>
              /\ state' = state /\ store' = store
              /\ ~call'.decided
              /\ call'.signal = NoSignal /\ call'.logged = <<>>]_vars
    /\ [](\A b \in {Null, call.up} :
              decide(call.k.close, b, Null, state, call.k.high, call.k.low, call.k.is_closed, cfg.only_on_close, cfg.use_breakout_level_for_entry, cfg.reentry_buffer_pct) = Ret(state, NoSignal))
    /\ []((call.phase = "done" /\ call.up = Null) => ENABLED Return)

(* A bar without bands has been skipped while a short position is held and a
   retest is pending *)
C27_Witness ==
    /\ call.phase = "done" /\ call.up = Null /\ ~call.decided
    /\ state.position = "short" /\ state.pending # NoPending
    /\ store # <<>>

(* C28: a failure of log_signal, log_trade or log_error does not abort the bar
   update: when the call is over the signal has been handed to execution and
   the new state has been saved. *)
C28_Original ==
    (ws.kcall.sink_failed /\ ws.kcall.ended \in {"returned", "raised"}) =>
        /\ ws.kcall.handed
        /\ ws.kcall.saved

(* C29: when order placement raises, the failure is logged with log_error,
   the state decide produced is saved at the end of the same update, and the
   order is not placed again. *)
C29_Original ==
    (ws.kcall.exec_failed /\ ws.kcall.ended \in {"returned", "raised"}) =>
        /\ ws.kcall.error_logged
        /\ ws.kcall.applied /\ ws.kcall.saved
        /\ ws.kcall.orders = 1

(* C30: upsert_indicator is called for closed bars only: never with the
   openTime of a bar that was received, or stored, with isClosed = false,
   in on_kline and in the startup history load. *)
C30_Original ==
    ind.upsert.is_closed

(* The state of the returned call right after the breakout-flag update of
   decide *)
FlagsUpdated ==
    UpdateBreakout(call.entry, call.k.close, call.up, call.dn, call.k.high, call.k.low)

(* C31: in every call, closePrice > up or highPrice > up makes breakout_up
   true and breakout_dn false, also when lowPrice < dn holds in the same
   update and whatever last_close_price is; otherwise closePrice < dn or
   lowPrice < dn makes breakout_dn true and breakout_up false; otherwise the
   step changes neither flag. *)
C31_Original ==
    Decided =>
        LET above == call.k.close > call.up \/ call.k.high > call.up
            below == call.k.close < call.dn \/ call.k.low < call.dn
        IN  /\ above => (FlagsUpdated.breakout_up /\ ~FlagsUpdated.breakout_dn)
            /\ (~above /\ below) => (FlagsUpdated.breakout_dn /\ ~FlagsUpdated.breakout_up)
            /\ (~above /\ ~below) =>
                   /\ FlagsUpdated.breakout_up = call.entry.breakout_up
                   /\ FlagsUpdated.breakout_dn = call.entry.breakout_dn

(* pending and breakout_level of the returned call once the reversal branch
   has marked the retest: the confirm is set, with the band as level, when
   the flag is up and the confirm was not pending already *)
MarkedPending(flag, confirm) ==
    IF flag /\ call.entry.pending # confirm THEN confirm ELSE call.entry.pending

MarkedLevel(flag, confirm, band) ==
    IF flag /\ call.entry.pending # confirm THEN band ELSE call.entry.breakout_level

(* The level the reversal retest is measured against *)
ReversalBase(flag, confirm, band) ==
    IF cfg.use_breakout_level_for_entry /\ MarkedLevel(flag, confirm, band) # Null
    THEN MarkedLevel(flag, confirm, band) ELSE band

(* A reversal has been made to `side` *)
Flipped(side, signal) ==
    /\ call.signal = signal
    /\ state.position = side
    /\ state.entry_price = call.k.close
    /\ state.pending = NoPending

(* C32, as stated: with position=short and no stop-loss in the call,
   breakout_dn sets pending=waiting_long_confirm with breakout_level=dn, and
   pending=waiting_long_confirm with closePrice > dn, entries allowed, flips
   to position=long with entry_price=closePrice, pending=none and
   breakout_dn=false, returning close_short_open_long; symmetrically for
   position=long with breakout_up, waiting_short_confirm and up, returning
   close_long_open_short. *)
C32_Original ==
    (Decided /\ call.signal \notin StopSignals) =>
        /\ (/\ call.entry.position = "short"
            /\ MarkedPending(FlagsUpdated.breakout_dn, "waiting_long_confirm") = "waiting_long_confirm"
            /\ call.k.close > call.dn /\ EntriesAllowed)
               => (Flipped("long", "close_short_open_long") /\ ~state.breakout_dn)
        /\ (/\ call.entry.position = "long"
            /\ MarkedPending(FlagsUpdated.breakout_up, "waiting_short_confirm") = "waiting_short_confirm"
            /\ call.k.close < call.up /\ EntriesAllowed)
               => (Flipped("short", "close_long_open_short") /\ ~state.breakout_up)

(* C32, amended: with position=short and no stop-loss in the call,
   breakout_dn with pending other than waiting_long_confirm sets
   pending=waiting_long_confirm with breakout_level=dn; and
   pending=waiting_long_confirm with closePrice >= base * (1 +
   reentry_buffer_pct), entries allowed, flips to position=long with
   entry_price=closePrice, pending=none and breakout_dn=false, returning
   close_short_open_long, and the call returns that signal in no other case;
   base is the recorded breakout_level when use_breakout_level_for_entry is
   set and dn otherwise. Symmetrically for position=long with breakout_up,
   waiting_short_confirm, up and closePrice <= base * (1 -
   reentry_buffer_pct), returning close_long_open_short. *)
C32_Reversal ==
    (Decided /\ call.signal \notin StopSignals) =>
        /\ call.entry.position = "short" =>
              LET retest == /\ MarkedPending(FlagsUpdated.breakout_dn, "waiting_long_confirm") = "waiting_long_confirm"
                            /\ call.k.close * 1000 >= ReversalBase(FlagsUpdated.breakout_dn, "waiting_long_confirm", call.dn) * (1000 + cfg.reentry_buffer_pct)
                            /\ EntriesAllowed
              IN  /\ retest => (Flipped("long", "close_short_open_long") /\ ~state.breakout_dn)
                  /\ ~retest =>
                        /\ call.signal = NoSignal /\ state.position = "short"
                        /\ state.pending = MarkedPending(FlagsUpdated.breakout_dn, "waiting_long_confirm")
                        /\ state.breakout_level = MarkedLevel(FlagsUpdated.breakout_dn, "waiting_long_confirm", call.dn)
        /\ call.entry.position = "long" =>
              LET retest == /\ MarkedPending(FlagsUpdated.breakout_up, "waiting_short_confirm") = "waiting_short_confirm"
                            /\ call.k.close * 1000 <= ReversalBase(FlagsUpdated.breakout_up, "waiting_short_confirm", call.up) * (1000 - cfg.reentry_buffer_pct)
                            /\ EntriesAllowed
              IN  /\ retest => (Flipped("short", "close_long_open_short") /\ ~state.breakout_up)
                  /\ ~retest =>
                        /\ call.signal = NoSignal /\ state.position = "long"
                        /\ state.pending = MarkedPending(FlagsUpdated.breakout_up, "waiting_short_confirm")
                        /\ state.breakout_level = MarkedLevel(FlagsUpdated.breakout_up, "waiting_short_confirm", call.up)

(* A short is reversed against the recorded level, the confirm pending from
   an earlier bar with another lower band *)
C32_Witness ==
    /\ Decided /\ call.entry.position = "short"
    /\ call.entry.pending = "waiting_long_confirm"
    /\ cfg.use_breakout_level_for_entry
    /\ call.entry.breakout_level # call.dn
    /\ Flipped("long", "close_short_open_long")

(* C33: the bookkeeping step clears the breakout flags only in a call with
   is_closed=true, dn <= closePrice <= up and pending=none: a call on a
   forming bar that returns no signal keeps every flag that was true after
   the flag update, and a call on a closed bar that returns no signal clears
   a flag only with the close inside the bands and nothing pending. *)
C33_Original ==
    (Decided /\ call.signal = NoSignal) =>
        LET cleared == \/ FlagsUpdated.breakout_up /\ ~state.breakout_up
                       \/ FlagsUpdated.breakout_dn /\ ~state.breakout_dn
        IN  cleared =>
               /\ call.k.is_closed
               /\ call.dn <= call.k.close /\ call.k.close <= call.up
               /\ state.pending = NoPending

(* C34: last_close_price tracks closed bars only: after every decide call
   with is_closed=true and available bands, on every return path,
   last_close_price equals that call's close_price; every call with
   is_closed=false leaves last_close_price unchanged. *)
C34_LastCloseTracksClosedBars ==
    Decided =>
        /\ call.k.is_closed => state.last_close_price = call.k.close
        /\ ~call.k.is_closed => state.last_close_price = call.entry.last_close_price

(* A stop-loss on a closed bar moves the baseline to a new close *)
C34_Witness ==
    /\ Decided /\ call.k.is_closed
    /\ call.signal = "stop_loss_long"
    /\ call.entry.last_close_price \notin {Null, call.k.close}
    /\ state.last_close_price = call.k.close

(* C35: when the exchange position query fails in live mode the update goes
   on with the local state: decide is given the position the state had
   before the query, not flat; the position is overwritten only when the
   query succeeds, with the reported side or with flat when the exchange
   reports no position. *)
C35_Original ==
    [][(call.phase = "received" /\ call'.phase = "done" /\ call'.decided /\ Live(cfg)) =>
          /\ call'.outcome = "failed" => call'.entry.position = state.position
          /\ call'.outcome \in {"long", "short"} => call'.entry.position = call'.outcome
          /\ call'.outcome = "no_position" => call'.entry.position = "flat"]_vars

(* C36: signals and position transitions correspond one to one in decide:
   position or entry_price changes during a call exactly when the call
   returns a signal, the signal names the transition made, and after every
   opening or reversal signal entry_price is that call's close_price. *)
Transition(from, to) == call.entry.position = from /\ state.position = to
C36_SignalsNameTransitions ==
    Decided =>
        /\ (state.position # call.entry.position \/ state.entry_price # call.entry.entry_price)
               <=> call.signal # NoSignal
        /\ call.signal = "open_short" => Transition("flat", "short")
        /\ call.signal = "open_long" => Transition("flat", "long")
        /\ call.signal = "close_short_open_long" => Transition("short", "long")
        /\ call.signal = "close_long_open_short" => Transition("long", "short")
        /\ call.signal = "stop_loss_short" => Transition("short", "flat")
        /\ call.signal = "stop_loss_long" => Transition("long", "flat")
        /\ call.signal \in {"open_short", "open_long", "close_short_open_long", "close_long_open_short"}
               => state.entry_price = call.k.close

C36_Witness ==
    /\ Decided
    /\ call.signal = "close_long_open_short"
    /\ Transition("long", "short")
    /\ call.entry.entry_price \notin {Null, call.k.close}
    /\ state.entry_price = call.k.close

(* C37: a held position always has an entry price: after the startup load,
   in the state handed to decide after the exchange-position sync, and after
   decide, position in {long, short} implies entry_price is not null, so the
   stop-loss check of decide is never skipped for a held position. *)
HasEntryPrice(s) == s.position \in {"long", "short"} => s.entry_price # Null
C37_Original ==
    /\ HasEntryPrice(state)
    /\ Decided => HasEntryPrice(call.entry)

(* C38: indicator availability is monotone under streaming: once add_kline
   has returned an available snapshot, every later add_kline call of the
   stream returns an available one, and forming-bar updates never leave
   fewer than window closed bars in the bounded window. *)
C38_Original ==
    [][(ind # Unused /\ ind.res # NoneSnapshot /\ ind'.phase = "stream") =>
          /\ ind'.res # NoneSnapshot
          /\ Len(ClosedCloses(ind'.df)) >= Window]_vars

(* C39: on a closed-bar update the bands handed to the strategy count every
   bar once: the series behind rt_up/rt_dn is made of the closes of the most
   recent closed bars, the just-closed one taken once, so that the realtime
   bands equal the canonical bands add_kline returned for that bar whenever
   both are available. *)
C39_Original ==
    (ind # Unused /\ ind.phase = "stream" /\ ind.k.is_closed) =>
        LET series == RealtimeSeries(ind.df, ind.k.close)
        IN  /\ series = TailN(ClosedCloses(ind.df), Len(series))
            /\ (ind.rt # NoneSnapshot /\ ind.res # NoneSnapshot) =>
                   ind.rt.up = ind.res.up /\ ind.rt.dn = ind.res.dn

====
